---- MODULE Spec2Model ----
(***************************************************************************)
(* Model of the blob-storage disk layer:                                   *)
(*   - WriteBufferFromBlobStorage (src/src/IO/WriteBufferFromBlobStorage   *)
(*     .cpp): the chunked upload buffer, its flush loop, finalize and      *)
(*     destructor;                                                         *)
(*   - DiskBlobStorage (src/unnamed/part_000): writeFile, checkUniqueId,   *)
(*     removeFromRemoteFS, and BlobStoragePathKeeper.                      *)
(* The blob container (StageBlock, CommitBlockList, DeleteBlob,            *)
(* ListBlobs), the WriteBuffer base class (write, next, finalize) and the  *)
(* metadata-registering wrapper WriteIndirectBufferFromRemoteFS are not in *)
(* these sources; they follow the design document (sections 4.1, 4.2, 6).  *)
(* A backend call that fails has no effect on the container.               *)
(***************************************************************************)
EXTENDS Integers, Sequences, FiniteSets, TLC

VARIABLES
    \* ---- DiskBlobStorage ----
    current_settings,   \* the settings snapshot held by the disk
    \* ---- one writeFile call: wrapper + WriteBufferFromBlobStorage ----
    phase,              \* "closed" (before writeFile), "open", "destroyed"
    requested_size,     \* the buf_size argument of writeFile
    buf_size,           \* capacity of the working buffer
    max_single_part_upload_size,
    blob_path,          \* blob name the buffer uploads to
    w_blob_path,        \* blob name the wrapper registers in the metadata
    working_buffer,     \* bytes between working_buffer.begin() and pos
    block_ids,          \* WriteBufferFromBlobStorage::block_ids
    finalized,          \* WriteBuffer::finalized of the upload buffer
    w_finalized,        \* WriteBuffer::finalized of the wrapper
    next_id,            \* source of fresh block ids (getRandomASCIIString)
    \* ---- remote container ----
    staged,             \* uncommitted blocks: block id -> bytes
    blobs,              \* committed (visible) blobs: name -> content
    \* ---- metadata store ----
    metadata,           \* objects registered for the path: <<[id, size]>>
    \* ---- observation (history) ----
    appended,           \* all bytes accepted by write, in order
    stageLog,           \* every StageBlock call: [id, len, ok, flush, pending]
    commitLog,          \* every CommitBlockList call: [ids, ok]
    flushes,            \* number of nextImpl runs that reached the loop
    finalizeCalls,      \* number of finalize() invocations on the buffer
    explicitFinalize,   \* the caller invoked finalize() itself
    lastError,          \* outcome of the last caller-level operation
    faults,             \* number of backend calls made to fail so far
    \* ---- removeFromRemoteFS / checkUniqueId ----
    keeper,             \* path keeper of a remove call: "none", "live", "consumed"
    paths,              \* BlobStoragePathKeeper::paths
    deleteLog,          \* every DeleteBlob call: [id, outcome]
    removeResult,       \* [status, kind, id] of the last removeFromRemoteFS
    removedBatch,       \* the batch that removeFromRemoteFS consumed
    checkedId,          \* argument of the last checkUniqueId (NoBlob: none yet)
    checkResult,        \* its return value
    \* ---- settings container, executor and their callers ----
    serial,             \* applyNewSettings calls run one after another
    constructed,        \* every DiskBlobStorageSettings object built so far
    observed,           \* every snapshot that current_settings.get() returned
    reconf,             \* per applyNewSettings caller: [pc, new_settings, threads]
    reader,             \* per readFile caller: position and the settings used
    executor_kind,      \* "async" (AsyncExecutor) or "sync"
    executor_threads,   \* thread count of the executor
    \* ---- one run of nextImpl, statement by statement ----
    flush_pc,           \* "idle", "entry", "loop", "done"
    read                \* the local read of nextImpl

uploadVars == <<phase, requested_size, buf_size, max_single_part_upload_size, blob_path,
                w_blob_path, working_buffer, block_ids, finalized, w_finalized,
                next_id, staged, metadata, appended, stageLog, commitLog,
                flushes, finalizeCalls, explicitFinalize, lastError, faults>>
diskVars == <<keeper, paths, deleteLog, removeResult, removedBatch, checkedId, checkResult>>
settingsVars == <<serial, constructed, observed, reconf, reader, executor_kind,
                  executor_threads>>
flushVars == <<flush_pc, read>>
otherVars == <<settingsVars, flushVars>>
vars == <<current_settings, blobs, uploadVars, diskVars, otherVars>>

----------------------------------------------------------------------------
\* Bounds of the model.
MaxBufSize == 3       \* largest working-buffer capacity tried
MaxPartSize == 4      \* largest max_single_part_upload_size tried
MaxLen == 5           \* most bytes appended to one buffer
MaxFaults == 2        \* most backend calls that are made to fail
MaxNameLen == 2       \* longest blob name in the existence check
MaxBlobs == 3         \* most blobs stored at once in the existence check
MaxObjects == 3       \* number of distinct object ids in the remove check
MaxBatch == 3         \* most ids added to one path keeper

Bytes == {0, 1}
NoBlob == <<>>
Path == <<1>>         \* the logical path written by writeFile
NewBlobPath == Path \o <<2>>   \* path + "_" + a random suffix

Min(a, b) == IF a < b THEN a ELSE b
CeilDiv(a, b) == (a + b - 1) \div b

----------------------------------------------------------------------------
\* DiskBlobStorageSettings::DiskBlobStorageSettings
DiskBlobStorageSettings(upload, seek, read_retries, download_retries, threads) ==
    [max_single_part_upload_size |-> upload,
     min_bytes_for_seek          |-> seek,
     max_single_read_retries     |-> read_retries,
     max_single_download_retries |-> download_retries,
     thread_pool_size            |-> threads]

SettingsValues ==
    {DiskBlobStorageSettings(p, 1, 1, 1, 1) : p \in 1..MaxPartSize}
DefaultSettings == DiskBlobStorageSettings(1, 1, 1, 1, 1)

----------------------------------------------------------------------------
(* The operations below are written as functions on a record w holding the *)
(* buffer, the container and the metadata store, so that a handler that    *)
(* calls another (finalize -> finalizeImpl -> next -> nextImpl) is one     *)
(* action.  w.calls counts the backend calls of the running operation and  *)
(* w.fault is the index of the call that the backend fails (0: none);      *)
(* w.thrown says that an exception is propagating.                         *)

World ==
    [working_buffer |-> working_buffer, block_ids |-> block_ids,
     finalized |-> finalized, w_finalized |-> w_finalized,
     next_id |-> next_id, staged |-> staged, blobs |-> blobs,
     metadata |-> metadata, stageLog |-> stageLog, commitLog |-> commitLog,
     flushes |-> flushes, finalizeCalls |-> finalizeCalls,
     calls |-> 0, fault |-> 0, thrown |-> FALSE]

WithFault(w, f) == [w EXCEPT !.fault = f]

RECURSIVE Concat(_, _)
\* content of a block list: the staged blocks' bytes, in list order
Concat(ids, blocks) ==
    IF ids = <<>> THEN <<>>
    ELSE blocks[Head(ids)] \o Concat(Tail(ids), blocks)

\* BlockBlobClient::StageBlock: stores the block, or throws and stores nothing
StageBlock(w, block_id, part, pending) ==
    LET called == [w EXCEPT !.calls = @ + 1]
        entry(ok) == [id |-> block_id, len |-> Len(part), ok |-> ok,
                      flush |-> w.flushes, pending |-> pending]
    IN  IF called.calls = w.fault
        THEN [called EXCEPT !.thrown = TRUE,
                            !.stageLog = Append(@, entry(FALSE))]
        ELSE [called EXCEPT !.staged = (block_id :> part) @@ @,
                            !.stageLog = Append(@, entry(TRUE))]

\* BlockBlobClient::CommitBlockList: the blob becomes the concatenation of
\* the listed blocks; the call throws (and changes nothing) when the backend
\* fails or when the list names a block that was never staged
CommitBlockList(w, name, ids) ==
    LET called == [w EXCEPT !.calls = @ + 1]
        unknown == \E i \in 1..Len(ids) : ids[i] \notin DOMAIN w.staged
    IN  IF called.calls = w.fault \/ unknown
        THEN [called EXCEPT !.thrown = TRUE,
                            !.commitLog = Append(@, [ids |-> ids, ok |-> FALSE])]
        ELSE [called EXCEPT !.blobs = (name :> Concat(ids, w.staged)) @@ @,
                            !.commitLog = Append(@, [ids |-> ids, ok |-> TRUE])]

\* part_len without the bound of the max part size
PartLenUnbounded(len, read_) == len - read_

\* part_len of one iteration of the staging loop
PartLen(len, read_) == Min(len - read_, max_single_part_upload_size)

RECURSIVE StagingLoop(_, _)
\* the staging loop recording the block id only once StageBlock returned
StagingLoopPushAfter(w, read_) ==
    LET len == Len(w.working_buffer)
    IN  IF ~(read_ < len) THEN w
        ELSE LET part_len == PartLen(len, read_)
                 block_id == w.next_id
                 fresh    == [w EXCEPT !.next_id = @ + 1]
                 part     == SubSeq(w.working_buffer, read_ + 1, read_ + part_len)
                 sent     == StageBlock(fresh, block_id, part, len)
             IN  IF sent.thrown THEN sent
                 ELSE StagingLoop([sent EXCEPT !.block_ids = Append(@, block_id)],
                                  read_ + part_len)

\* the body of the staging loop up to and including StageBlock
StageIteration(w, read_) ==
    LET len      == Len(w.working_buffer)
        part_len == PartLen(len, read_)
        block_id == w.next_id
        pushed   == [w EXCEPT !.next_id = @ + 1,
                              !.block_ids = Append(@, block_id)]
        part     == SubSeq(w.working_buffer, read_ + 1, read_ + part_len)
    IN  StageBlock(pushed, block_id, part, len)

\* while (read < len) { ... } of nextImpl
StagingLoop(w, read_) ==
    LET len == Len(w.working_buffer)
    IN  IF ~(read_ < len) THEN w
        ELSE LET sent == StageIteration(w, read_)
             IN  IF sent.thrown THEN sent
                 ELSE StagingLoop(sent, read_ + PartLen(len, read_))

\* WriteBufferFromBlobStorage::nextImpl
nextImpl(w) ==
    IF Len(w.working_buffer) = 0 THEN w
    ELSE StagingLoop([w EXCEPT !.flushes = @ + 1], 0)

\* WriteBuffer::next (design 4.1, Flushing): flushes the pending bytes and
\* empties the working buffer, whether or not nextImpl threw
next(w) ==
    IF Len(w.working_buffer) = 0 THEN w
    ELSE [nextImpl(w) EXCEPT !.working_buffer = <<>>]

\* finalizeImpl committing without flushing the pending bytes first
finalizeImplNoFlush(w) ==
    LET committed == CommitBlockList(w, blob_path, w.block_ids)
    IN  IF committed.thrown THEN committed
        ELSE [committed EXCEPT !.finalized = TRUE]

\* finalizeImpl trying the commit a second time when the first one threw
finalizeImplRetry(w) ==
    LET flushed == next(w)
    IN  IF flushed.thrown THEN flushed
        ELSE LET first == CommitBlockList(flushed, blob_path, flushed.block_ids)
                 again == CommitBlockList([first EXCEPT !.thrown = FALSE],
                                          blob_path, flushed.block_ids)
                 committed == IF first.thrown THEN again ELSE first
             IN  IF committed.thrown THEN committed
                 ELSE [committed EXCEPT !.finalized = TRUE]

\* finalizeImpl returning early when there is no block to commit
finalizeImplSkipEmpty(w) ==
    LET flushed == next(w)
    IN  IF flushed.thrown THEN flushed
        ELSE IF flushed.block_ids = <<>> THEN [flushed EXCEPT !.finalized = TRUE]
        ELSE LET committed == CommitBlockList(flushed, blob_path, flushed.block_ids)
             IN  IF committed.thrown THEN committed
                 ELSE [committed EXCEPT !.finalized = TRUE]

\* WriteBufferFromBlobStorage::finalizeImpl
finalizeImpl(w) ==
    LET flushed == next(w)
    IN  IF flushed.thrown THEN flushed
        ELSE LET committed == CommitBlockList(flushed, blob_path, flushed.block_ids)
             IN  IF committed.thrown THEN committed
                 ELSE [committed EXCEPT !.finalized = TRUE]

\* WriteBuffer::finalize (design 4.1, Finalized): runs finalizeImpl at most
\* once; the buffer is Finalized afterwards whether finalizeImpl returned
\* or threw
finalize(w) ==
    LET entered == [w EXCEPT !.finalizeCalls = @ + 1]
    IN  IF w.finalized THEN entered
        ELSE [finalizeImpl(entered) EXCEPT !.finalized = TRUE,
                                          !.working_buffer = <<>>]

\* the destructor running finalizeImpl without the finalized check
DestructorUnguarded(w) == finalizeImpl([w EXCEPT !.finalizeCalls = @ + 1])

\* WriteBufferFromBlobStorage::~WriteBufferFromBlobStorage
Destructor(w) == finalize(w)

\* write accepting bytes whatever the state of the buffer
writeUnchecked(w, b) ==
    LET room == IF Len(w.working_buffer) = buf_size THEN next(w) ELSE w
    IN  IF room.thrown THEN room
        ELSE [room EXCEPT !.working_buffer = Append(@, b)]

\* WriteBuffer::write of one byte (design 4.1, Accumulating): a full working
\* buffer is flushed first; a finalized buffer rejects the write
write(w, b) ==
    IF w.finalized THEN [w EXCEPT !.thrown = TRUE]
    ELSE LET room == IF Len(w.working_buffer) = buf_size THEN next(w) ELSE w
         IN  IF room.thrown THEN room
             ELSE [room EXCEPT !.working_buffer = Append(@, b)]

\* WriteIndirectBufferFromRemoteFS::finalize (design 4.2, openForWrite):
\* finalizes the upload buffer and, only if that returned, registers the
\* blob and the size written
WrapperFinalize(w, size) ==
    IF w.w_finalized THEN w
    ELSE LET done == [finalize(w) EXCEPT !.w_finalized = TRUE]
         IN  IF done.thrown THEN done
             ELSE [done EXCEPT !.metadata =
                       Append(@, [id |-> w_blob_path, size |-> size])]

\* teardown of the wrapper and then of the buffer it owns; an exception of
\* the wrapper's finalize is caught in its destructor
Teardown(w, size) ==
    LET wrapper == WrapperFinalize(w, size)
    IN  Destructor([wrapper EXCEPT !.thrown = FALSE])

----------------------------------------------------------------------------
\* the fault index f names a backend call that the operation really made
FaultHit(r) == r.fault = 0 \/ r.fault <= r.calls
FaultCost(r) == IF r.fault = 0 THEN 0 ELSE 1
MaxCallsPerOp == MaxBufSize + 1
FaultChoices == IF faults < MaxFaults THEN 0..MaxCallsPerOp ELSE {0}

Install(r) ==
    /\ working_buffer' = r.working_buffer
    /\ block_ids' = r.block_ids
    /\ finalized' = r.finalized
    /\ w_finalized' = r.w_finalized
    /\ next_id' = r.next_id
    /\ staged' = r.staged
    /\ blobs' = r.blobs
    /\ metadata' = r.metadata
    /\ stageLog' = r.stageLog
    /\ commitLog' = r.commitLog
    /\ flushes' = r.flushes
    /\ finalizeCalls' = r.finalizeCalls
    /\ faults' = faults + FaultCost(r)

\* the constructor sizing the working buffer by the max part size
WriteBufferSizedByPart(blob_path_, max_single_part_upload_size_, buf_size_) ==
    [blob_path |-> blob_path_,
     max_single_part_upload_size |-> max_single_part_upload_size_,
     buf_size |-> max_single_part_upload_size_]

\* WriteBufferFromBlobStorage::WriteBufferFromBlobStorage
WriteBufferFromBlobStorage(blob_path_, max_single_part_upload_size_, buf_size_) ==
    [blob_path |-> blob_path_,
     max_single_part_upload_size |-> max_single_part_upload_size_,
     buf_size |-> buf_size_]

\* DiskBlobStorage::writeFile with the wrapper given the name remote_fs_path
OpenForWrite(size, remote_fs_path) ==
    LET buffer == WriteBufferFromBlobStorage(
                      NewBlobPath,
                      current_settings.max_single_part_upload_size,
                      size)
    IN  /\ phase = "closed"
        /\ requested_size' = size
        /\ buf_size' = buffer.buf_size
        /\ max_single_part_upload_size' = buffer.max_single_part_upload_size
        /\ blob_path' = buffer.blob_path
        /\ w_blob_path' = remote_fs_path
        /\ phase' = "open"
        /\ UNCHANGED <<otherVars, current_settings, blobs, working_buffer, block_ids,
                       finalized, w_finalized, next_id, staged, metadata,
                       appended, stageLog, commitLog, flushes, finalizeCalls,
                       explicitFinalize, lastError, faults, diskVars>>

\* writeFile handing the wrapper the logical path instead of the blob name
writeFileRegistersPath == \E size \in 1..MaxBufSize : OpenForWrite(size, Path)

\* DiskBlobStorage::writeFile
writeFile == \E size \in 1..MaxBufSize : OpenForWrite(size, NewBlobPath)

\* the caller appends one byte through the wrapper
Write ==
    /\ phase = "open"
    /\ Len(appended) < MaxLen
    /\ \E b \in Bytes, f \in FaultChoices :
        LET r == write(WithFault(World, f), b)
        IN  /\ FaultHit(r)
            /\ Install(r)
            /\ appended' = IF r.thrown THEN appended ELSE Append(appended, b)
            /\ lastError' = IF ~r.thrown THEN "none"
                            ELSE IF finalized THEN "InvalidState"
                            ELSE "RemoteStorageError"
    /\ UNCHANGED <<otherVars, current_settings, phase, requested_size, buf_size, max_single_part_upload_size,
                   blob_path, w_blob_path, explicitFinalize, diskVars>>

\* the caller finalizes the wrapper
Finalize ==
    /\ phase = "open"
    /\ \E f \in FaultChoices :
        LET r == WrapperFinalize(WithFault(World, f), Len(appended))
        IN  /\ FaultHit(r)
            /\ Install(r)
            /\ lastError' = IF r.thrown THEN "RemoteStorageError" ELSE "none"
    /\ explicitFinalize' = TRUE
    /\ UNCHANGED <<otherVars, current_settings, phase, requested_size, buf_size, max_single_part_upload_size,
                   blob_path, w_blob_path, appended, diskVars>>

\* the caller drops the wrapper (normally, or while unwinding)
Destroy ==
    /\ phase = "open"
    /\ \E f \in FaultChoices :
        LET r == Teardown(WithFault(World, f), Len(appended))
        IN  /\ FaultHit(r)
            /\ Install(r)
    /\ phase' = "destroyed"
    /\ UNCHANGED <<otherVars, current_settings, requested_size, buf_size, max_single_part_upload_size,
                   blob_path, w_blob_path, appended, explicitFinalize,
                   lastError, diskVars>>

\* Callers of applyNewSettings and of readFile.
Reconfigurers == {"r1", "r2"}
Readers == {"t1"}

\* No applyNewSettings or readFile call has started; the executor was sized
\* by the DiskBlobStorage constructor from the initial settings.
InitSettings ==
    /\ constructed = {current_settings}
    /\ observed = {}
    /\ reconf = [t \in Reconfigurers |->
                    [pc |-> "idle", new_settings |-> current_settings, threads |-> 0]]
    /\ reader = [t \in Readers |->
                    [pc |-> "idle", threadpool_read |-> FALSE,
                     settings |-> current_settings,
                     max_single_read_retries |-> 0,
                     max_single_download_retries |-> 0,
                     min_bytes_for_seek |-> 0]]
    /\ executor_threads = current_settings.thread_pool_size

InitOther ==
    /\ serial = FALSE
    /\ executor_kind = "sync"
    /\ InitSettings
    /\ flush_pc = "idle"
    /\ read = 0

InitUpload ==
    /\ phase = "closed"
    /\ requested_size = 0
    /\ buf_size = 0
    /\ max_single_part_upload_size = 0
    /\ blob_path = NoBlob
    /\ w_blob_path = NoBlob
    /\ working_buffer = <<>>
    /\ block_ids = <<>>
    /\ finalized = FALSE
    /\ w_finalized = FALSE
    /\ next_id = 1
    /\ staged = <<>>
    /\ metadata = <<>>
    /\ appended = <<>>
    /\ stageLog = <<>>
    /\ commitLog = <<>>
    /\ flushes = 0
    /\ finalizeCalls = 0
    /\ explicitFinalize = FALSE
    /\ lastError = "none"
    /\ faults = 0

InitDisk ==
    /\ keeper = "none"
    /\ paths = <<>>
    /\ deleteLog = <<>>
    /\ removeResult = [status |-> "none", kind |-> "none", id |-> NoBlob,
                       logged |-> NoBlob]
    /\ removedBatch = <<>>
    /\ checkedId = NoBlob
    /\ checkResult = FALSE

Init ==
    /\ current_settings \in SettingsValues
    /\ blobs = <<>>
    /\ InitUpload
    /\ InitDisk
    /\ InitOther

Next == writeFile \/ Write \/ Finalize \/ Destroy

Spec == Init /\ [][Next]_vars

----------------------------------------------------------------------------
\* Properties of the upload (specification Spec).

StageFailed == \E i \in 1..Len(stageLog) : ~stageLog[i].ok
CommitFailed == \E j \in 1..Len(commitLog) : ~commitLog[j].ok
CommitSucceeded == \E j \in 1..Len(commitLog) : commitLog[j].ok
AllCallsSucceeded == ~StageFailed /\ ~CommitFailed
ObjectVisible == blob_path \in DOMAIN blobs
SuccessfulCommits == {j \in 1..Len(commitLog) : commitLog[j].ok}
StagedIds == [i \in 1..Len(stageLog) |-> stageLog[i].id]

\* C1 (round trip): once the buffer is finalized and no StageBlock or
\* CommitBlockList call failed, the committed blob holds exactly the bytes
\* that were appended, in order, whatever the buffer size, the max part
\* size and the number of flushes.
RoundTrip ==
    (finalized /\ AllCallsSucceeded) =>
        (ObjectVisible /\ blobs[blob_path] = appended)

WitnessRoundTrip ==
    /\ finalized /\ AllCallsSucceeded
    /\ flushes >= 2
    /\ Len(stageLog) >= 3
    /\ Len(appended) > buf_size
    /\ ObjectVisible /\ blobs[blob_path] = appended

\* C2 (at-most-once commit): once a commit succeeded, no later step (a second
\* finalize, the destructor) issues a StageBlock or CommitBlockList call or
\* changes the blob; at most one CommitBlockList call ever succeeds.
AtMostOnceCommit ==
    /\ [](Cardinality(SuccessfulCommits) <= 1)
    /\ [][CommitSucceeded =>
            (commitLog' = commitLog /\ stageLog' = stageLog /\ blobs' = blobs)]_vars

WitnessSecondFinalize ==
    /\ CommitSucceeded
    /\ explicitFinalize
    /\ phase = "destroyed"
    /\ finalizeCalls >= 2
    /\ Len(commitLog) = 1

\* C3 (invisibility until commit): a blob is visible only if a
\* CommitBlockList call for it succeeded, so staging alone shows nothing;
\* and once a CommitBlockList call failed the blob is never visible.
InvisibleUntilCommit ==
    /\ (DOMAIN blobs # {}) => (DOMAIN blobs = {blob_path} /\ CommitSucceeded)
    /\ CommitFailed => ~ObjectVisible

WitnessCommitFailedInvisible ==
    /\ CommitFailed
    /\ ~StageFailed
    /\ Len(stageLog) >= 2
    /\ phase = "destroyed"
    /\ ~ObjectVisible

\* C4 (commit before registration): every object id registered in the
\* metadata store names a committed blob, and a successful commit for it
\* came before.
RegisteredIsCommitted ==
    \A i \in 1..Len(metadata) :
        /\ metadata[i].id \in DOMAIN blobs
        /\ metadata[i].id = blob_path
        /\ CommitSucceeded

WitnessRegistered ==
    /\ Len(metadata) = 1
    /\ metadata[1].id \in DOMAIN blobs
    /\ metadata[1].size = Len(blobs[blob_path])
    /\ metadata[1].size >= 2

\* C5 (abandoned upload): a buffer that received appends and was torn down
\* without an explicit finalize issued no CommitBlockList call and left no
\* visible blob.
AbandonedLeavesNothing ==
    (phase = "destroyed" /\ ~explicitFinalize /\ Len(appended) >= 1) =>
        (commitLog = <<>> /\ ~ObjectVisible)

\* the i-th staged block holds the i-th cut of size n of the appended bytes
CutOfAppended(i, n) ==
    SubSeq(appended, (i - 1) * n + 1, Min(i * n, Len(appended)))

WholeUploadInBlocksOf(n) ==
    /\ Len(stageLog) = CeilDiv(Len(appended), n)
    /\ \A i \in 1..Len(stageLog) :
        /\ stageLog[i].len = (IF i < Len(stageLog) THEN n
                              ELSE Len(appended) - (i - 1) * n)
        /\ staged[stageLog[i].id] = CutOfAppended(i, n)
    /\ Len(commitLog) = 1
    /\ commitLog[1].ids = StagedIds

\* C6 as stated (whole-upload block count): with buffer size S < max part
\* size P, writing L bytes stages ceil(L/P) blocks of P bytes (the last one
\* possibly shorter) and commits their ids once, in append order.
WholeUploadBlocksOfPartSize ==
    (finalized /\ AllCallsSucceeded /\ requested_size < max_single_part_upload_size) =>
        WholeUploadInBlocksOf(max_single_part_upload_size)

\* C6 as amended: with buffer size S < max part size P, writing L bytes
\* stages ceil(L/S) blocks of S bytes (the last one possibly shorter) and
\* commits their ids once, in append order.
WholeUploadBlocksOfBufferSize ==
    (finalized /\ AllCallsSucceeded /\ requested_size < max_single_part_upload_size) =>
        WholeUploadInBlocksOf(requested_size)

WitnessWholeUpload ==
    /\ finalized /\ AllCallsSucceeded
    /\ requested_size < max_single_part_upload_size
    /\ requested_size >= 2
    /\ Len(stageLog) >= 3
    /\ WholeUploadInBlocksOf(requested_size)

\* the StageBlock calls of flush number f
FlushEntries(f) == SelectSeq(stageLog, LAMBDA e : e.flush = f)
FlushComplete(f) ==
    /\ FlushEntries(f) # <<>>
    /\ \A i \in 1..Len(FlushEntries(f)) : FlushEntries(f)[i].ok

RECURSIVE SumLen(_)
SumLen(entries) ==
    IF entries = <<>> THEN 0 ELSE Head(entries).len + SumLen(Tail(entries))

\* C7 (part-size bound): every block passed to StageBlock has between 1 and
\* max_single_part_upload_size bytes; a flush of n pending bytes that ran to
\* its end staged ceil(n/P) blocks, of P bytes each except possibly the
\* last, n bytes in all.
PartSizeBound ==
    /\ \A i \in 1..Len(stageLog) :
        /\ stageLog[i].len >= 1
        /\ stageLog[i].len <= max_single_part_upload_size
    /\ \A f \in 1..flushes :
        FlushComplete(f) =>
            LET es == FlushEntries(f)
                n  == es[1].pending
            IN  /\ n >= 1
                /\ Len(es) = CeilDiv(n, max_single_part_upload_size)
                /\ SumLen(es) = n
                /\ \A i \in 1..(Len(es) - 1) :
                       es[i].len = max_single_part_upload_size

WitnessSplitFlush ==
    \E f \in 1..flushes :
        /\ FlushComplete(f)
        /\ Len(FlushEntries(f)) >= 2
        /\ FlushEntries(f)[1].pending > max_single_part_upload_size
        /\ FlushEntries(f)[Len(FlushEntries(f))].len < max_single_part_upload_size

FinalizedIsTerminal ==
    [][(finalized /\ Write) =>
          /\ lastError' = "InvalidState"
          /\ appended' = appended
          /\ working_buffer' = working_buffer
          /\ stageLog' = stageLog
          /\ commitLog' = commitLog
          /\ block_ids' = block_ids
          /\ blobs' = blobs]_vars

WitnessWriteRejected ==
    /\ finalized
    /\ lastError = "InvalidState"
    /\ CommitSucceeded
    /\ phase = "open"
    /\ Len(appended) >= 1

\* C15 (network calls only on flush): a write that still fits in the working
\* buffer issues no StageBlock or CommitBlockList call; every StageBlock call
\* belongs to a flush of at least one pending byte; writeFile and write never
\* issue CommitBlockList; a finalize that finds the working buffer empty
\* stages nothing and commits once; hence finalizing a buffer that never
\* received a byte makes no StageBlock call and exactly one CommitBlockList
\* call, with an empty block-id list.
NetworkOnlyOnFlush ==
    /\ [](\A i \in 1..Len(stageLog) : stageLog[i].pending >= 1)
    /\ []((finalized /\ appended = <<>>) =>
            /\ stageLog = <<>>
            /\ Len(commitLog) = 1
            /\ commitLog[1].ids = <<>>)
    /\ [][(Len(working_buffer) < buf_size
            /\ (stageLog' # stageLog \/ commitLog' # commitLog)) => ~Write]_vars
    /\ [][(commitLog' # commitLog) => ~(Write \/ writeFile)]_vars
    /\ [][(~finalized /\ working_buffer = <<>> /\ Finalize) =>
            (stageLog' = stageLog /\ Len(commitLog') = Len(commitLog) + 1)]_vars

WitnessEmptyFinalize ==
    /\ finalized
    /\ explicitFinalize
    /\ appended = <<>>
    /\ stageLog = <<>>
    /\ commitLog = <<[ids |-> <<>>, ok |-> TRUE]>>
    /\ ObjectVisible /\ blobs[blob_path] = <<>>

\* C16 (block list only names staged blocks): every id in block_ids is the
\* id of a block whose StageBlock call succeeded, block_ids has no
\* duplicates and lists the blocks in staging order, so every
\* CommitBlockList call submits staged blocks only.
OkStagedIds == LET ok == SelectSeq(stageLog, LAMBDA e : e.ok)
               IN  [i \in 1..Len(ok) |-> ok[i].id]
BlockListOnlyStaged ==
    /\ \A i \in 1..Len(block_ids) : block_ids[i] \in DOMAIN staged
    /\ \A i, j \in 1..Len(block_ids) : block_ids[i] = block_ids[j] => i = j
    /\ block_ids = OkStagedIds
    /\ \A c \in 1..Len(commitLog) :
          \A i \in 1..Len(commitLog[c].ids) : commitLog[c].ids[i] \in DOMAIN staged

----------------------------------------------------------------------------
\* Blob names are strings over a two-letter alphabet.
Chars == {1, 2}
RECURSIVE NamesOfLen(_)
NamesOfLen(n) ==
    IF n = 0 THEN {<<>>}
    ELSE {Append(s, c) : s \in NamesOfLen(n - 1), c \in Chars}
Names == UNION {NamesOfLen(n) : n \in 1..MaxNameLen}

IsPrefix(p, s) == Len(p) <= Len(s) /\ SubSeq(s, 1, Len(p)) = p

RECURSIVE NameLess(_, _)
\* lexicographic (alphabetical) order of names
NameLess(a, b) ==
    IF a = <<>> THEN b # <<>>
    ELSE IF b = <<>> THEN FALSE
    ELSE IF Head(a) # Head(b) THEN Head(a) < Head(b)
    ELSE NameLess(Tail(a), Tail(b))

RECURSIVE SortNames(_)
SortNames(S) ==
    IF S = {} THEN <<>>
    ELSE LET first == CHOOSE x \in S : \A y \in S : x = y \/ NameLess(x, y)
         IN  <<first>> \o SortNames(S \ {first})

\* BlobContainerClient::ListBlobs, first page: the names that start with
\* the prefix, in alphabetical order, at most page_size_hint of them
ListBlobs(container, prefix, page_size_hint) ==
    LET matching == SortNames({n \in DOMAIN container : IsPrefix(prefix, n)})
    IN  SubSeq(matching, 1, Min(page_size_hint, Len(matching)))

\* the comparison accepting any listed name that starts with the id
NameStartsWith(id, name) == IsPrefix(id, name)

\* the comparison made for one listed blob
NameMatches(id, name) == id = name

\* DiskBlobStorage::checkUniqueId, as a function of the container
CheckUniqueId(container, id) ==
    LET blobs_list == ListBlobs(container, id, 1)
    IN  \E i \in 1..Len(blobs_list) : NameMatches(id, blobs_list[i])

\* DiskBlobStorage::checkUniqueId
checkUniqueId ==
    /\ \E id \in Names :
        /\ checkedId' = id
        /\ checkResult' = CheckUniqueId(blobs, id)
    /\ UNCHANGED <<otherVars, current_settings, blobs, uploadVars, keeper, paths,
                   deleteLog, removeResult, removedBatch>>

InitExists ==
    /\ current_settings = DefaultSettings
    /\ \E S \in SUBSET Names :
        /\ Cardinality(S) <= MaxBlobs
        /\ blobs = [n \in S |-> <<>>]
    /\ InitUpload
    /\ InitDisk
    /\ InitOther

NextExists == checkUniqueId

SpecExists == InitExists /\ [][NextExists]_vars

----------------------------------------------------------------------------
\* Object ids of the remove check.
ObjectIds == {<<k>> : k \in 1..MaxObjects}
DeleteModes == {"none", "unconfirmed", "raise"}

\* BlobContainerClient::DeleteBlob: [container, deleted, thrown].  The call
\* removes an existing blob and reports Deleted = true; it reports
\* Deleted = false when nothing was removed, and a failing backend throws
DeleteBlob(container, name, mode) ==
    IF mode = "raise"
    THEN [container |-> container, deleted |-> FALSE, thrown |-> TRUE]
    ELSE IF mode = "none" /\ name \in DOMAIN container
    THEN [container |-> [n \in DOMAIN container \ {name} |-> container[n]],
          deleted |-> TRUE, thrown |-> FALSE]
    ELSE [container |-> container, deleted |-> FALSE, thrown |-> FALSE]

RECURSIVE RemoveLoop(_, _, _)
\* the loop going on to the next path when Deleted is false
RemoveLoopIgnoringFlag(r, batch, modes) ==
    IF batch = <<>> THEN r
    ELSE LET path == Head(batch)
             delete_info == DeleteBlob(r.container, path, Head(modes))
             outcome == IF delete_info.thrown THEN "raised"
                        ELSE IF delete_info.deleted THEN "deleted"
                        ELSE "unconfirmed"
             called == [r EXCEPT !.container = delete_info.container,
                                 !.log = Append(@, [id |-> path, outcome |-> outcome,
                                                     mode |-> Head(modes)])]
         IN  IF delete_info.thrown
             THEN [called EXCEPT !.status = "error", !.kind = "StorageException",
                                 !.logged = path]
             ELSE RemoveLoop(called, Tail(batch), Tail(modes))

\* for (const auto & path : paths_keeper->paths) { try ... catch ... }
RemoveLoop(r, batch, modes) ==
    IF batch = <<>> THEN r
    ELSE LET path == Head(batch)
             delete_info == DeleteBlob(r.container, path, Head(modes))
             outcome == IF delete_info.thrown THEN "raised"
                        ELSE IF delete_info.deleted THEN "deleted"
                        ELSE "unconfirmed"
             called == [r EXCEPT !.container = delete_info.container,
                                 !.log = Append(@, [id |-> path, outcome |-> outcome,
                                                     mode |-> Head(modes)])]
         IN  IF delete_info.thrown
             THEN [called EXCEPT !.status = "error", !.kind = "StorageException",
                                 !.logged = path]
             ELSE IF ~delete_info.deleted
             THEN [called EXCEPT !.status = "error", !.kind = "BLOB_STORAGE_ERROR",
                                 !.id = path]
             ELSE RemoveLoop(called, Tail(batch), Tail(modes))

\* DiskBlobStorage::createFSPathKeeper
createFSPathKeeper ==
    /\ keeper = "none"
    /\ keeper' = "live"
    /\ paths' = <<>>
    /\ UNCHANGED <<otherVars, current_settings, blobs, uploadVars, deleteLog, removeResult,
                   removedBatch, checkedId, checkResult>>

\* BlobStoragePathKeeper::addPath
addPath ==
    /\ keeper = "live"
    /\ Len(paths) < MaxBatch
    /\ \E path \in ObjectIds : paths' = Append(paths, path)
    /\ UNCHANGED <<otherVars, current_settings, blobs, uploadVars, keeper, deleteLog,
                   removeResult, removedBatch, checkedId, checkResult>>

\* DiskBlobStorage::removeFromRemoteFS
removeFromRemoteFS ==
    /\ keeper = "live"
    /\ \E modes \in [1..Len(paths) -> DeleteModes] :
        LET start == [container |-> blobs, log |-> <<>>, status |-> "ok",
                      kind |-> "none", id |-> NoBlob, logged |-> NoBlob]
            r == RemoveLoop(start, paths, modes)
        IN  /\ blobs' = r.container
            /\ deleteLog' = r.log
            /\ removeResult' = [status |-> r.status, kind |-> r.kind,
                                id |-> r.id, logged |-> r.logged]
    /\ removedBatch' = paths
    /\ keeper' = "consumed"
    /\ paths' = <<>>
    /\ UNCHANGED <<otherVars, current_settings, uploadVars, checkedId, checkResult>>

InitRemove ==
    /\ current_settings = DefaultSettings
    /\ \E S \in SUBSET ObjectIds : blobs = [n \in S |-> <<>>]
    /\ InitUpload
    /\ InitDisk
    /\ InitOther

NextRemove == createFSPathKeeper \/ addPath \/ removeFromRemoteFS

SpecRemove == InitRemove /\ [][NextRemove]_vars

\* C9 (removeBatch aborts at the first failure): DeleteBlob is called for the
\* ids of the batch in order, once each, up to the first call k that returns
\* Deleted = false or throws; then removeFromRemoteFS fails (with
\* BLOB_STORAGE_ERROR naming id k when Deleted was false), no id after k is
\* tried, and the ids before k are deleted.  It succeeds only if every call
\* confirmed the deletion.
RemoveAbortsAtFirstFailure ==
    (keeper = "consumed") =>
        LET k == Len(deleteLog)
        IN  /\ k <= Len(removedBatch)
            /\ \A i \in 1..k : deleteLog[i].id = removedBatch[i]
            /\ \A i \in 1..(k - 1) :
                   /\ deleteLog[i].outcome = "deleted"
                   /\ removedBatch[i] \notin DOMAIN blobs
            /\ IF removeResult.status = "ok"
               THEN /\ k = Len(removedBatch)
                    /\ \A i \in 1..k : deleteLog[i].outcome = "deleted"
               ELSE /\ removeResult.status = "error"
                    /\ k >= 1
                    /\ deleteLog[k].outcome \in {"unconfirmed", "raised"}
                    /\ (deleteLog[k].outcome = "unconfirmed") =>
                           /\ removeResult.kind = "BLOB_STORAGE_ERROR"
                           /\ removeResult.id = removedBatch[k]
                    /\ (deleteLog[k].outcome = "raised") =>
                           /\ removeResult.kind = "StorageException"
                           /\ removeResult.logged = removedBatch[k]

WitnessAbortedBatch ==
    /\ keeper = "consumed"
    /\ removeResult.status = "error"
    /\ removeResult.kind = "BLOB_STORAGE_ERROR"
    /\ Len(deleteLog) = 2
    /\ Len(removedBatch) = 3
    /\ removedBatch[3] \in DOMAIN blobs
    /\ removedBatch[3] # removedBatch[2]

\* the objects the container held when removeFromRemoteFS was called: a
\* DeleteBlob call that did not delete has no effect
ExistedBefore ==
    DOMAIN blobs \cup {deleteLog[i].id : i \in {j \in 1..Len(deleteLog) :
                                                  deleteLog[j].outcome = "deleted"}}

\* C18 (removeBatch with repeated ids): when every id of the batch, repeated
\* or not, named a stored object and no DeleteBlob call was made to fail,
\* removeFromRemoteFS completes without error and none of the ids of the
\* batch is stored afterwards.
RemoveRepeatedIds ==
    (/\ keeper = "consumed"
     /\ \A i \in 1..Len(deleteLog) : deleteLog[i].mode = "none"
     /\ \A i \in 1..Len(removedBatch) : removedBatch[i] \in ExistedBefore)
    => /\ removeResult.status = "ok"
       /\ \A i \in 1..Len(removedBatch) : removedBatch[i] \notin DOMAIN blobs

----------------------------------------------------------------------------
\* Settings container, executor, applyNewSettings and readFile, one
\* statement at a time.
MaxConfigs == 2       \* number of distinct configurations that can be loaded

\* settings_getter: the snapshot built from configuration number c
Settings(c) == DiskBlobStorageSettings(c, c, c, c, c)
ConfigValues == {Settings(c) : c \in 1..MaxConfigs}

\* a set that overwrites the fields of the current snapshot one by one and
\* is seen after the first field
MultiVersionSetInPlace(cur, value) ==
    [cur EXCEPT !.thread_pool_size = value.thread_pool_size]

\* MultiVersion::set: the container's current snapshot is replaced as a whole
MultiVersionSet(cur, value) == value

settingsRest == <<blobs, uploadVars, diskVars, flushVars, serial, executor_kind>>

\* applyNewSettings: auto new_settings = settings_getter(config, ...)
applyNewSettingsBuild(t) ==
    /\ reconf[t].pc = "idle"
    /\ serial => \A u \in Reconfigurers \ {t} : reconf[u].pc \in {"idle", "done"}
    /\ \E s \in ConfigValues :
        /\ reconf' = [reconf EXCEPT ![t] = [@ EXCEPT !.pc = "built",
                                                      !.new_settings = s]]
        /\ constructed' = constructed \cup {s}
    /\ UNCHANGED <<settingsRest, current_settings, observed, reader, executor_threads>>

\* applyNewSettings: current_settings.set(std::move(new_settings))
applyNewSettingsSet(t) ==
    /\ reconf[t].pc = "built"
    /\ current_settings' = MultiVersionSet(current_settings, reconf[t].new_settings)
    /\ reconf' = [reconf EXCEPT ![t] = [@ EXCEPT !.pc = "set"]]
    /\ UNCHANGED <<settingsRest, constructed, observed, reader, executor_threads>>

\* applyNewSettings: the dynamic_cast and, for an AsyncExecutor, the
\* evaluation of the argument current_settings.get()->thread_pool_size
applyNewSettingsGet(t) ==
    /\ reconf[t].pc = "set"
    /\ IF executor_kind = "async"
       THEN /\ reconf' = [reconf EXCEPT ![t] =
                            [@ EXCEPT !.pc = "got",
                                      !.threads = current_settings.thread_pool_size]]
            /\ observed' = observed \cup {current_settings}
       ELSE /\ reconf' = [reconf EXCEPT ![t] = [@ EXCEPT !.pc = "done"]]
            /\ observed' = observed
    /\ UNCHANGED <<settingsRest, current_settings, constructed, reader, executor_threads>>

\* the call returning without resizing the executor
applyNewSettingsNoResize(t) ==
    /\ reconf[t].pc = "got"
    /\ reconf' = [reconf EXCEPT ![t] = [@ EXCEPT !.pc = "done"]]
    /\ UNCHANGED <<settingsRest, current_settings, constructed, observed, reader,
                   executor_threads>>

\* applyNewSettings: exec->setMaxThreads(...), then the call returns
applyNewSettingsResize(t) ==
    /\ reconf[t].pc = "got"
    /\ executor_threads' = reconf[t].threads
    /\ reconf' = [reconf EXCEPT ![t] = [@ EXCEPT !.pc = "done"]]
    /\ UNCHANGED <<settingsRest, current_settings, constructed, observed, reader>>

\* readFile up to the construction of reader_impl: the snapshot is taken
\* once and the two retry limits are read from it
readFileBegin(t) ==
    /\ reader[t].pc = "idle"
    /\ \E threadpool_read \in BOOLEAN :
        LET settings == current_settings
        IN  reader' = [reader EXCEPT ![t] =
                [pc |-> "impl", threadpool_read |-> threadpool_read,
                 settings |-> settings,
                 max_single_read_retries |-> settings.max_single_read_retries,
                 max_single_download_retries |-> settings.max_single_download_retries,
                 min_bytes_for_seek |-> 0]]
    /\ observed' = observed \cup {current_settings}
    /\ UNCHANGED <<settingsRest, current_settings, constructed, reconf, executor_threads>>

\* readFile from if (threadpool_read) to the return: the seek-avoiding
\* buffer takes min_bytes_for_seek from current_settings.get()
readFileEnd(t) ==
    /\ reader[t].pc = "impl"
    /\ IF reader[t].threadpool_read
       THEN /\ reader' = [reader EXCEPT ![t] = [@ EXCEPT !.pc = "done"]]
            /\ observed' = observed
       ELSE /\ reader' = [reader EXCEPT ![t] =
                            [@ EXCEPT !.pc = "done",
                                      !.min_bytes_for_seek =
                                          current_settings.min_bytes_for_seek]]
            /\ observed' = observed \cup {current_settings}
    /\ UNCHANGED <<settingsRest, current_settings, constructed, reconf, executor_threads>>

InitSettingsSpec ==
    /\ current_settings \in ConfigValues
    /\ blobs = <<>>
    /\ InitUpload
    /\ InitDisk
    /\ InitSettings
    /\ executor_kind \in {"async", "sync"}
    /\ flush_pc = "idle"
    /\ read = 0

NextSettings ==
    \/ \E t \in Reconfigurers : applyNewSettingsBuild(t)
    \/ \E t \in Reconfigurers : applyNewSettingsSet(t)
    \/ \E t \in Reconfigurers : applyNewSettingsGet(t)
    \/ \E t \in Reconfigurers : applyNewSettingsResize(t)
    \/ \E t \in Readers : readFileBegin(t)
    \/ \E t \in Readers : readFileEnd(t)

\* applyNewSettings calls may overlap
InitConcurrent ==
    /\ serial = FALSE
    /\ InitSettingsSpec

SpecSettings == InitConcurrent /\ [][NextSettings]_vars

\* applyNewSettings calls run one after another
InitSerial ==
    /\ serial = TRUE
    /\ InitSettingsSpec

SpecSerial == InitSerial /\ [][NextSettings]_vars

\* C11 (one snapshot per operation): the retry limits and the
\* min_bytes_for_seek that a completed readFile call used are the values of
\* the one snapshot the call took when it started, whatever applyNewSettings
\* did meanwhile.
OneSnapshotPerRead ==
    \A t \in Readers :
        (reader[t].pc = "done") =>
            /\ reader[t].max_single_read_retries =
                   reader[t].settings.max_single_read_retries
            /\ reader[t].max_single_download_retries =
                   reader[t].settings.max_single_download_retries
            /\ ~reader[t].threadpool_read =>
                   reader[t].min_bytes_for_seek = reader[t].settings.min_bytes_for_seek

\* C12 (snapshot atomicity): every snapshot returned by
\* current_settings.get(), to readFile or to applyNewSettings, is equal in
\* all five fields to one snapshot that settings_getter or the constructor
\* built; the container itself never holds anything else.
SnapshotAtomicity ==
    /\ observed \subseteq constructed
    /\ current_settings \in constructed

WitnessGetDuringReconfigure ==
    /\ Cardinality(observed) >= 2
    /\ \E t \in Reconfigurers : reconf[t].pc \in {"built", "set", "got"}
    /\ \E t \in Readers :
          /\ reader[t].pc = "done"
          /\ ~reader[t].threadpool_read
          /\ reader[t].settings # current_settings

\* C14 (applyNewSettings resizes the executor in the same call): with calls
\* running one after another and an AsyncExecutor, when a call returns the
\* executor's thread count is the thread_pool_size of the snapshot this call
\* built and the container holds that snapshot.
ResizeInSameCall ==
    [][\A t \in Reconfigurers :
          (executor_kind = "async" /\ reconf[t].pc # "done" /\ reconf'[t].pc = "done")
          => /\ executor_threads' = reconf'[t].new_settings.thread_pool_size
             /\ current_settings' = reconf'[t].new_settings]_vars

WitnessSerialResizes ==
    /\ serial
    /\ executor_kind = "async"
    /\ \A t \in Reconfigurers : reconf[t].pc = "done"
    /\ \E t, u \in Reconfigurers :
          reconf[t].new_settings.thread_pool_size # reconf[u].new_settings.thread_pool_size
    /\ executor_threads = current_settings.thread_pool_size

\* C19 (executor and snapshot agree at quiescence): once every
\* applyNewSettings call has returned, the AsyncExecutor's thread count is
\* the thread_pool_size of the snapshot the container holds, however the
\* calls overlapped.
AgreementAtQuiescence ==
    (/\ executor_kind = "async"
     /\ \A t \in Reconfigurers : reconf[t].pc \in {"idle", "done"}
     /\ \E t \in Reconfigurers : reconf[t].pc = "done")
    => executor_threads = current_settings.thread_pool_size

----------------------------------------------------------------------------
\* One run of nextImpl, statement by statement, for every pending content
\* and every max_single_part_upload_size a settings object can hold.
MaxIterations == 5    \* most iterations of the staging loop that are followed

PendingBytes(size) == UNION {[1..n -> Bytes] : n \in 0..size}

InitFlush ==
    /\ \E p \in 0..MaxPartSize :
        /\ current_settings = DiskBlobStorageSettings(p, 1, 1, 1, 1)
        /\ max_single_part_upload_size = p
    /\ \E size \in 1..MaxBufSize :
        /\ requested_size = size
        /\ buf_size = size
        /\ working_buffer \in PendingBytes(size)
    /\ appended = working_buffer
    /\ phase = "open"
    /\ blob_path = NewBlobPath
    /\ w_blob_path = NewBlobPath
    /\ block_ids = <<>>
    /\ finalized = FALSE
    /\ w_finalized = FALSE
    /\ next_id = 1
    /\ staged = <<>>
    /\ blobs = <<>>
    /\ metadata = <<>>
    /\ stageLog = <<>>
    /\ commitLog = <<>>
    /\ flushes = 0
    /\ finalizeCalls = 0
    /\ explicitFinalize = FALSE
    /\ lastError = "none"
    /\ faults = 0
    /\ InitDisk
    /\ serial = FALSE
    /\ executor_kind = "sync"
    /\ InitSettings
    /\ flush_pc = "entry"
    /\ read = 0

flushRest == <<current_settings, phase, requested_size, buf_size,
               max_single_part_upload_size, blob_path, w_blob_path, appended,
               explicitFinalize, lastError, diskVars, settingsVars>>

\* nextImpl: if (!offset()) return; ... size_t read = 0;
nextImplEntry ==
    /\ flush_pc = "entry"
    /\ IF Len(working_buffer) = 0
       THEN flush_pc' = "done" /\ flushes' = flushes
       ELSE flush_pc' = "loop" /\ flushes' = flushes + 1
    /\ read' = 0
    /\ UNCHANGED <<flushRest, blobs, working_buffer, block_ids, finalized, w_finalized,
                   next_id, staged, metadata, stageLog, commitLog, finalizeCalls,
                   faults>>

\* nextImpl: one iteration of while (read < len), StageBlock returning
nextImplIterate ==
    /\ flush_pc = "loop"
    /\ read < Len(working_buffer)
    /\ Len(stageLog) < MaxIterations
    /\ Install(StageIteration(World, read))
    /\ read' = read + PartLen(Len(working_buffer), read)
    /\ UNCHANGED <<flushRest, flush_pc>>

\* nextImpl: while (read < len) found false, the function returns
nextImplExit ==
    /\ flush_pc = "loop"
    /\ ~(read < Len(working_buffer))
    /\ flush_pc' = "done"
    /\ UNCHANGED <<flushRest, read, blobs, working_buffer, block_ids, finalized,
                   w_finalized, next_id, staged, metadata, stageLog, commitLog,
                   flushes, finalizeCalls, faults>>

NextFlush == nextImplEntry \/ nextImplIterate \/ nextImplExit

SpecFlush == InitFlush /\ [][NextFlush]_vars

\* C17 (flush terminates): for every pending length n >= 1 and every max
\* part size P, 0 included, each iteration of the staging loop moves read
\* forward, so the loop makes at most n StageBlock calls and ends.
FlushMakesProgress ==
    /\ [][nextImplIterate => read' > read]_vars
    /\ [](Len(stageLog) <= Len(working_buffer))

====
